---------------------------- MODULE Spec2Model ----------------------------
(***************************************************************************)
(* A model of bdc_stac/data.py: the filter compiler and item query         *)
(* (get_collection_items), the band/metadata resolvers, the collection     *)
(* assembler (get_collections, get_catalog) and the feature assembler      *)
(* (make_geojson).                                                         *)
(*                                                                         *)
(* Conventions.  A Python str is a sequence of one-character strings, so   *)
(* that split, concatenation and parsing are computed and not assumed.     *)
(* An optional value is a sequence of length 0 (None) or 1 (the value).    *)
(* A timestamp is an integer (a day number); a float is a normalised       *)
(* decimal [m, k] standing for m / 10^k.                                   *)
(***************************************************************************)
EXTENDS Integers, Sequences, FiniteSets, TLC

VARIABLES
    collections,   \* table Collection: id -> row
    bands,         \* table Band: collection id -> sequence of band rows
    req,           \* the parameters of the request being served
    result,        \* what get_collection_items returned (the Pagination)
    docs,          \* what get_collections returned, and the rows it read
    catalog,       \* what get_catalog returned
    crs,           \* what get_collection_crs returned
    links,         \* the caller's links template, handed to make_geojson
    features,      \* what each make_geojson call returned, in call order
    eo_cache,      \* lru_cache of get_collection_eo: most recently used last
    eo_ret,        \* what get_collection_eo returned last
    eo_log         \* per collection id: the value returned for it, and the
                   \* other ids called since

vars == <<collections, bands, req, result, docs, catalog, crs, links, features,
          eo_cache, eo_ret, eo_log>>

None == <<>>
Some(v) == <<v>>

\* F(x), with x evaluated once and then bound
Bind(x, F(_)) == CHOOSE r \in {F(v) : v \in {x}} : TRUE

RangeOf(s) == {s[i] : i \in DOMAIN s}

RECURSIVE Pow10(_)
Pow10(k) == IF k = 0 THEN 1 ELSE 10 * Pow10(k - 1)

----------------------------------------------------------------------------
(* Python str operations                                                   *)

DigitChars == <<"0", "1", "2", "3", "4", "5", "6", "7", "8", "9">>

IsDigit(c) == \E i \in DOMAIN DigitChars : DigitChars[i] = c

DigitVal(c) == (CHOOSE i \in DOMAIN DigitChars : DigitChars[i] = c) - 1

\* s.split(sep) for a one-character sep: the pieces between separators,
\* empty pieces kept, never an empty list.
RECURSIVE SplitAcc(_, _, _)
SplitAcc(s, sep, cur) ==
    IF s = <<>> THEN <<cur>>
    ELSE IF Head(s) = sep THEN <<cur>> \o SplitAcc(Tail(s), sep, <<>>)
    ELSE SplitAcc(Tail(s), sep, Append(cur, Head(s)))

Split(s, sep) == SplitAcc(s, sep, <<>>)

AllDigits(s) == \A i \in DOMAIN s : IsDigit(s[i])

RECURSIVE DigitsVal(_)
DigitsVal(s) ==
    IF s = <<>> THEN 0 ELSE 10 * DigitsVal(SubSeq(s, 1, Len(s) - 1)) + DigitVal(s[Len(s)])

\* int(s): an optional sign, then one or more digits; anything else raises
\* ValueError.
ParseInt(s) ==
    LET signed == s # <<>> /\ Head(s) \in {"-", "+"}
        body == IF signed THEN Tail(s) ELSE s
    IN  IF body = <<>> \/ ~AllDigits(body) THEN [ok |-> FALSE, val |-> 0]
        ELSE [ok |-> TRUE,
              val |-> IF signed /\ Head(s) = "-" THEN 0 - DigitsVal(body)
                      ELSE DigitsVal(body)]

RECURSIVE StripZeros(_, _)
StripZeros(m, k) ==
    IF k > 0 /\ m % 10 = 0 THEN StripZeros(m \div 10, k - 1) ELSE [m |-> m, k |-> k]

\* float(s): an optional sign, digits with at most one ".", at least one
\* digit; anything else raises ValueError.  The value is the normalised
\* decimal, so "1", "1.0" and "1.00" are the same float and "-0" is "0".
ParseFloat(s) ==
    LET signed == s # <<>> /\ Head(s) \in {"-", "+"}
        body == IF signed THEN Tail(s) ELSE s
        parts == Split(body, ".")
        ip == parts[1]
        fp == IF Len(parts) = 2 THEN parts[2] ELSE <<>>
        good == /\ Len(parts) \in {1, 2}
                /\ AllDigits(ip) /\ AllDigits(fp)
                /\ ip \o fp # <<>>
        mag == DigitsVal(ip \o fp)
    IN  IF ~good THEN [ok |-> FALSE, val |-> [m |-> 0, k |-> 0]]
        ELSE [ok |-> TRUE,
              val |-> StripZeros(IF signed /\ Head(s) = "-" THEN 0 - mag ELSE mag,
                                 Len(fp))]

FloatOf(n) == [m |-> n, k |-> 0]

\* a <= b on floats
FloatLe(a, b) == a.m * Pow10(b.k) <= b.m * Pow10(a.k)

FloatMin(a, b) == IF FloatLe(a, b) THEN a ELSE b

FloatMax(a, b) == IF FloatLe(a, b) THEN b ELSE a

\* SQL: name LIKE pattern, "%" any run of characters, "_" any one character
RECURSIVE Like(_, _)
Like(name, pat) ==
    IF pat = <<>> THEN name = <<>>
    ELSE IF Head(pat) = "%"
         THEN Like(name, Tail(pat)) \/ (name # <<>> /\ Like(Tail(name), pat))
    ELSE /\ name # <<>>
         /\ (Head(pat) = "_" \/ Head(pat) = Head(name))
         /\ Like(Tail(name), Tail(pat))


----------------------------------------------------------------------------
(* Configuration (bdc_stac.config)                                         *)

BDC_STAC_MAX_LIMIT == 2

BDC_STAC_FILE_ROOT == <<"R", ":">>

----------------------------------------------------------------------------
(* The stored tables.  Item, Tile, GridRefSys and the quicklook table are  *)
(* fixed; the Collection and Band tables are state.                        *)

CollectionIds == {1, 2, 12}

PlatformMeta == [code |-> "S2", instruments |-> <<"MSI">>]

FullMeta == [rightsList |-> <<[rights |-> "MIT"]>>, platform |-> PlatformMeta]

BareMeta == [doi |-> "x"]

NoRightsMeta == [rightsList |-> <<>>]

CollectionRow(name, version, public, kind, grs, meta) ==
    [name |-> name, version |-> version, is_public |-> public,
     collection_type |-> kind, grid_ref_sys_id |-> grs, meta |-> meta,
     start |-> Some(1), end |-> Some(7)]

\* One Tile row per id.
Tiles == [t \in {1, 2} |-> [name |-> IF t = 1 THEN <<"T", "1">> ELSE <<"T", "2">>]]

GridRefSyss == [g \in {1} |-> [name |-> <<"G">>, crs |-> <<"+", "p">>]]

Box(x1, y1, x2, y2) == [x1 |-> x1, y1 |-> y1, x2 |-> x2, y2 |-> y2]

\* str() of a coordinate or a day number of the tables (one digit)
Str(n) == <<DigitChars[n + 1]>>

\* the text of Box2D / ST_Extent: BOX(x1 y1,x2 y2)
BoxText(b) ==
    <<"B", "O", "X", "(">> \o Str(b.x1) \o <<" ">> \o Str(b.y1) \o <<",">>
        \o Str(b.x2) \o <<" ">> \o Str(b.y2) \o <<")">>

ItemRow(name, coll, tile, s, e, geom, cc, assets) ==
    [name |-> name, collection_id |-> coll, tile_id |-> tile,
     start_date |-> s, end_date |-> e, geom |-> geom, cloud_cover |-> cc,
     assets |-> assets]

Asset(href) == [href |-> href]

\* Two items start on the same day; one item has no tile and no cloud cover;
\* collection 12 has no item.
Items ==
    << ItemRow(<<"a">>, 1, Some(1), 4, 4, Box(0, 0, 2, 2), Some(10),
               [B1 |-> Asset(<<"/", "a">>)]),
       ItemRow(<<"a", "b">>, 1, Some(1), 2, 6, Box(1, 1, 3, 3), Some(50),
               [B1 |-> Asset(<<"/", "b">>), thumb |-> Asset(<<"/", "t">>)]),
       ItemRow(<<"b">>, 1, None, 1, 2, Box(5, 5, 6, 6), None,
               [B2 |-> Asset(<<"/", "c">>)]),
       ItemRow(<<"c">>, 2, Some(2), 4, 5, Box(0, 0, 1, 1), Some(0),
               [B1 |-> Asset(<<"/", "d">>)]),
       ItemRow(<<"d">>, 2, Some(2), 6, 7, Box(2, 2, 4, 4), Some(90),
               [B1 |-> Asset(<<"/", "e">>)]) >>

ItemIdx == DOMAIN Items

\* bdc.quicklook: collection id -> the three band names, for the collections
\* that define one.
Quicklooks == [c \in {1} |-> <<"B3", "B2", "B1">>]

\* func.concat(Collection.name, "-", Collection.version)
CollectionName(row) == row.name \o <<"-">> \o row.version

----------------------------------------------------------------------------
(* Visibility: or_(Collection.is_public.is_(True),                         *)
(*                 Collection.id.in_([int(r.split(":")[0]) for r in roles])) *)

\* RoleCollectionId reading the first character of the role only
RoleCollectionIdFirstChar(r) == ParseInt(SubSeq(r, 1, 1))

\* int(r.split(":")[0])
RoleCollectionId(r) == ParseInt(Split(r, ":")[1])

\* The list comprehension over roles: ValueError as soon as one role has no
\* integer prefix.
RoleIds(roles) ==
    IF \E i \in DOMAIN roles : ~RoleCollectionId(roles[i]).ok
    THEN [ok |-> FALSE, ids |-> {}]
    ELSE [ok |-> TRUE, ids |-> {RoleCollectionId(roles[i]).val : i \in DOMAIN roles}]

Visible(cid, role_ids) == collections[cid].is_public \/ cid \in role_ids


----------------------------------------------------------------------------
(* create_query_filter                                                     *)

\* mapping: the STAC operator -> the column method
OperatorMapping ==
    [eq |-> "__eq__", neq |-> "__ne__", lt |-> "__lt__", lte |-> "__le__",
     gt |-> "__gt__", gte |-> "__ge__", startsWith |-> "startswith",
     endsWith |-> "endswith", contains |-> "contains", in |-> "in_"]

\* bdc_properties: the queryable property -> the column
BdcProperties == ("bdc:tile" :> "Tile.name") @@ ("eo:cloud_cover" :> "Item.cloud_cover")

\* query is a sequence of <<property, operator, value>>, in the iteration
\* order of the two nested dicts.  A property or an operator that is not a
\* key raises KeyError.
CreateQueryFilter(query) ==
    IF \E j \in DOMAIN query :
          \/ query[j][1] \notin DOMAIN BdcProperties
          \/ query[j][2] \notin DOMAIN OperatorMapping
    THEN [err |-> "KeyError", preds |-> <<>>]
    ELSE [err |-> "",
          preds |-> [j \in DOMAIN query |->
                       [kind |-> "property",
                        column |-> BdcProperties[query[j][1]],
                        method |-> OperatorMapping[query[j][2]],
                        value |-> query[j][3]]]]

----------------------------------------------------------------------------
(* get_collection_items: the where list                                    *)

Failed(e) == [err |-> e, preds |-> <<>>]

Compiled(preds) == [err |-> "", preds |-> preds]

\* BBoxFilter comparing the texts of the values, not the floats
BBoxFilterTextual(bbox) ==
    LET pieces == Split(bbox, ",")
        parsed == [j \in DOMAIN pieces |-> ParseFloat(pieces[j])]
        split_bbox == [j \in DOMAIN pieces |-> parsed[j].val]
    IN  IF \E j \in DOMAIN pieces : ~parsed[j].ok
        THEN Failed("InvalidBoundingBoxError")
        ELSE IF Len(pieces) < 4
        THEN Failed("InvalidBoundingBoxError")
        ELSE IF pieces[1] = pieces[3] \/ pieces[2] = pieces[4]
        THEN Failed("InvalidBoundingBoxError")
        ELSE Compiled(<<[kind |-> "envelope",
                         xmin |-> split_bbox[1], ymin |-> split_bbox[2],
                         xmax |-> split_bbox[3], ymax |-> split_bbox[4]]>>)

\* lines 111-126.  Everything raised inside the try, the degenerate box
\* included, leaves as InvalidBoundingBoxError.
BBoxFilter(bbox) ==
    LET pieces == Split(bbox, ",")
        parsed == [j \in DOMAIN pieces |-> ParseFloat(pieces[j])]
        split_bbox == [j \in DOMAIN pieces |-> parsed[j].val]
    IN  IF \E j \in DOMAIN pieces : ~parsed[j].ok
        THEN Failed("InvalidBoundingBoxError")
        ELSE IF Len(split_bbox) < 3
        THEN Failed("InvalidBoundingBoxError")
        ELSE IF split_bbox[1] = split_bbox[3]
        THEN Failed("InvalidBoundingBoxError")
        ELSE IF Len(split_bbox) < 4
        THEN Failed("InvalidBoundingBoxError")
        ELSE IF split_bbox[2] = split_bbox[4]
        THEN Failed("InvalidBoundingBoxError")
        ELSE Compiled(<<[kind |-> "envelope",
                         xmin |-> split_bbox[1], ymin |-> split_bbox[2],
                         xmax |-> split_bbox[3], ymax |-> split_bbox[4]]>>)

\* lines 109-126: intersects wins over bbox
SpatialFilter(r) ==
    IF r.intersects # None
    THEN Compiled(<<[kind |-> "intersects", geom |-> r.intersects[1]]>>)
    ELSE IF r.bbox # None THEN BBoxFilter(r.bbox[1])
    ELSE Compiled(<<>>)

\* lines 128-141
DateFilter(datetime) ==
    IF \E j \in DOMAIN datetime : datetime[j] = "/"
    THEN LET parts == Split(datetime, "/")
         IN  IF Len(parts) # 2 THEN Failed("ValueError")
             ELSE Compiled(<<[kind |-> "date_range",
                              time_start |-> parts[1], time_end |-> parts[2]]>>)
    ELSE Compiled(<<[kind |-> "date_instant", datetime |-> datetime]>>)

TemporalFilter(r) ==
    IF r.datetime # None THEN DateFilter(r.datetime[1]) ELSE Compiled(<<>>)

\* lines 99-102
ScopeFilter(r) ==
    IF r.collections # None
    THEN <<[kind |-> "collection_in", names |-> RangeOf(Split(r.collections[1], ","))]>>
    ELSE IF r.collection_id # None
    THEN <<[kind |-> "collection_eq", name |-> r.collection_id[1]]>>
    ELSE <<>>

\* lines 104-107: an empty or absent query compiles nothing
PropertyFilter(r) ==
    IF r.query # None /\ r.query[1] # <<>>
    THEN CreateQueryFilter(r.query[1])
    ELSE Compiled(<<>>)

\* lines 98-141, the else branch: the four families in the order the code
\* runs them, the first error ending the call.
CombinedFilters(r) ==
    LET q == PropertyFilter(r)
        sp == SpatialFilter(r)
        tm == TemporalFilter(r)
    IN  IF q.err # "" THEN q
        ELSE IF sp.err # "" THEN sp
        ELSE IF tm.err # "" THEN tm
        ELSE Compiled(ScopeFilter(r) \o q.preds \o sp.preds \o tm.preds)

\* ModeFilters with the combined filters compiled before the mode is chosen
ModeFiltersEager(r) ==
    LET c == CombinedFilters(r)
    IN  IF c.err # "" THEN c
        ELSE IF r.ids # None
        THEN Compiled(<<[kind |-> "name_in", names |-> RangeOf(Split(r.ids[1], ","))]>>)
        ELSE IF r.item_id # None
        THEN Compiled(<<[kind |-> "name_like", pattern |-> r.item_id[1]]>>)
        ELSE c

\* lines 94-141
ModeFilters(r) ==
    IF r.ids # None
    THEN Compiled(<<[kind |-> "name_in", names |-> RangeOf(Split(r.ids[1], ","))]>>)
    ELSE IF r.item_id # None
    THEN Compiled(<<[kind |-> "name_like", pattern |-> r.item_id[1]]>>)
    ELSE CombinedFilters(r)

\* lines 89-92
BaseFilters(role_ids) ==
    <<[kind |-> "join"], [kind |-> "visible", role_ids |-> role_ids]>>

\* lines 89-141: the where list, or the exception that ends the call
Where(r) ==
    LET rl == RoleIds(r.roles)
        m == ModeFilters(r)
    IN  IF ~rl.ok THEN Failed("ValueError")
        ELSE IF m.err # "" THEN m
        ELSE Compiled(BaseFilters(rl.ids) \o m.preds)


----------------------------------------------------------------------------
(* The storage engine: what each predicate selects                         *)

StartsWith(s, pre) == Len(pre) <= Len(s) /\ SubSeq(s, 1, Len(pre)) = pre

EndsWith(s, suf) == Len(suf) <= Len(s) /\ SubSeq(s, Len(s) - Len(suf) + 1, Len(s)) = suf

Contains(s, sub) ==
    \E k \in 0..(Len(s) - Len(sub)) : SubSeq(s, k + 1, k + Len(sub)) = sub

\* The column of a property predicate on an item row: Tile.name comes from
\* the outer join and is NULL for an item without tile.
ColumnValue(column, it) ==
    IF column = "Tile.name"
    THEN (IF it.tile_id = None THEN None ELSE Some(Tiles[it.tile_id[1]].name))
    ELSE it.cloud_cover

\* A comparison with NULL selects nothing.
PropertyHolds(p, it) ==
    LET col == ColumnValue(p.column, it)
    IN  /\ col # None
        /\ CASE p.method = "__eq__" -> col[1] = p.value
             [] p.method = "__ne__" -> col[1] # p.value
             [] p.method = "__lt__" -> col[1] < p.value
             [] p.method = "__le__" -> col[1] <= p.value
             [] p.method = "__gt__" -> col[1] > p.value
             [] p.method = "__ge__" -> col[1] >= p.value
             [] p.method = "startswith" -> StartsWith(col[1], p.value)
             [] p.method = "endswith" -> EndsWith(col[1], p.value)
             [] p.method = "contains" -> Contains(col[1], p.value)
             [] p.method = "in_" -> col[1] \in p.value

\* ST_Intersects of two axis-aligned rectangles given by two corners each
\* (closed sets: touching rectangles intersect).
RectIntersects(ax1, ay1, ax2, ay2, g) ==
    /\ FloatLe(FloatMin(ax1, ax2), FloatOf(g.x2))
    /\ FloatLe(FloatOf(g.x1), FloatMax(ax1, ax2))
    /\ FloatLe(FloatMin(ay1, ay2), FloatOf(g.y2))
    /\ FloatLe(FloatOf(g.y1), FloatMax(ay1, ay2))

\* A timestamp literal: a day number in digits.
ParseTimestamp(s) ==
    IF s # <<>> /\ AllDigits(s) THEN [ok |-> TRUE, val |-> DigitsVal(s)]
    ELSE [ok |-> FALSE, val |-> 0]

\* Line 134-135: start_date in [time_start, time_end] or end_date in it
DateRangeHolds(it, ts, te) ==
    \/ (it.start_date >= ts /\ it.start_date <= te)
    \/ (it.end_date >= ts /\ it.end_date <= te)

\* Line 139
DateInstantHolds(it, t) == it.start_date <= t \/ it.end_date <= t

\* A predicate whose literal the storage engine cannot read fails the query.
BadLiteral(p) ==
    \/ p.kind = "date_range"
         /\ (~ParseTimestamp(p.time_start).ok \/ ~ParseTimestamp(p.time_end).ok)
    \/ p.kind = "date_instant" /\ ~ParseTimestamp(p.datetime).ok

\* predicate p on the pair of Collection row c and Item row i
Holds(p, c, i) ==
    LET it == Items[i]
    IN  CASE p.kind = "join" -> c = it.collection_id
          [] p.kind = "visible" -> Visible(c, p.role_ids)
          [] p.kind = "name_in" -> it.name \in p.names
          [] p.kind = "name_like" -> Like(it.name, p.pattern)
          [] p.kind = "collection_in" -> CollectionName(collections[c]) \in p.names
          [] p.kind = "collection_eq" -> CollectionName(collections[c]) = p.name
          [] p.kind = "property" -> PropertyHolds(p, it)
          [] p.kind = "intersects" ->
                RectIntersects(FloatOf(p.geom.x1), FloatOf(p.geom.y1),
                               FloatOf(p.geom.x2), FloatOf(p.geom.y2), it.geom)
          [] p.kind = "envelope" ->
                RectIntersects(p.xmin, p.ymin, p.xmax, p.ymax, it.geom)
          [] p.kind = "date_range" ->
                DateRangeHolds(it, ParseTimestamp(p.time_start).val,
                               ParseTimestamp(p.time_end).val)
          [] p.kind = "date_instant" ->
                DateInstantHolds(it, ParseTimestamp(p.datetime).val)

\* .filter(*where) over Collection x Item
Matches(preds) ==
    {ci \in CollectionIds \X ItemIdx :
        \A j \in DOMAIN preds : Holds(preds[j], ci[1], ci[2])}

\* The orders the engine may give rows with equal start_date: by item
\* position, ascending or descending.
TieBreaks == {1, -1}

Before(a, b, tb) ==
    LET sa == Items[a[2]].start_date
        sb == Items[b[2]].start_date
    IN  \/ sa > sb
        \/ sa = sb /\ tb * a[2] < tb * b[2]
        \/ sa = sb /\ a[2] = b[2] /\ a[1] < b[1]

\* .order_by(Item.start_date.desc())
RECURSIVE OrderByStartDesc(_, _)
OrderByStartDesc(S, tb) ==
    IF S = {} THEN <<>>
    ELSE Bind(CHOOSE a \in S : \A b \in S \ {a} : Before(a, b, tb),
              LAMBDA first :
                <<first>> \o Bind(S \ {first}, LAMBDA rest : OrderByStartDesc(rest, tb)))

\* The selected columns of one row.  meta and assets are the row's own
\* objects, deserialised for it.
ItemResultRow(c, i) ==
    LET it == Items[i]
    IN  [item |-> it.name,
         collection |-> CollectionName(collections[c]),
         collection_id |-> it.collection_id,
         collection_type |-> collections[c].collection_type,
         meta |-> collections[c].meta,
         start |-> it.start_date,
         end |-> it.end_date,
         assets |-> it.assets,
         cloud_cover |-> it.cloud_cover,
         bbox |-> BoxText(it.geom),
         tile |-> IF it.tile_id = None THEN None ELSE Some(Tiles[it.tile_id[1]].name)]

Min(a, b) == IF a <= b THEN a ELSE b

\* .limit(per_page).offset(offset)
LimitOffset(rows, per_page, offset) ==
    LET k == Min(per_page, Len(rows) - offset)
    IN  [j \in 1..(IF k > 0 THEN k ELSE 0) |-> rows[offset + j]]

\* Paginate with pages counted from 0
PaginateZeroIndexed(rows, page_arg, per_page_arg, max_per_page) ==
    LET per_page == Min(per_page_arg, max_per_page)
        items == LimitOffset(rows, per_page, page_arg * per_page)
        pages == (Len(rows) + per_page - 1) \div per_page
    IN  [outcome |-> "ok", executed |-> TRUE, items |-> items, page |-> page_arg,
         per_page |-> per_page, total |-> Len(rows), has_next |-> page_arg < pages]

\* query.paginate(page, per_page, error_out=False, max_per_page): the page
\* size is capped, a page below 1 is page 1, a negative size is 20; the
\* count is skipped on a short first page; has_next is page < pages.
Paginate(rows, page_arg, per_page_arg, max_per_page) ==
    LET capped == Min(per_page_arg, max_per_page)
        page == IF page_arg < 1 THEN 1 ELSE page_arg
        per_page == IF capped < 0 THEN 20 ELSE capped
        items == LimitOffset(rows, per_page, (page - 1) * per_page)
        total == IF page = 1 /\ Len(items) < per_page THEN Len(items) ELSE Len(rows)
        pages == IF per_page = 0 THEN 0 ELSE (total + per_page - 1) \div per_page
    IN  [outcome |-> "ok", executed |-> TRUE, items |-> items, page |-> page,
         per_page |-> per_page, total |-> total, has_next |-> page < pages]

Raised(e, executed) ==
    [outcome |-> e, executed |-> executed, items |-> <<>>, page |-> 0,
     per_page |-> 0, total |-> 0, has_next |-> FALSE]

\* get_collection_items(**r), the rows in the order tb
CollectionItems(r, tb) ==
    Bind(Where(r),
         LAMBDA w :
           IF w.err # "" THEN Raised(w.err, FALSE)
           ELSE IF \E j \in DOMAIN w.preds : BadLiteral(w.preds[j])
           THEN Raised("DataError", TRUE)
           ELSE Bind(Bind(Matches(w.preds), LAMBDA S : OrderByStartDesc(S, tb)),
                     LAMBDA ordered :
                       Paginate([j \in DOMAIN ordered |->
                                   ItemResultRow(ordered[j][1], ordered[j][2])],
                                r.page, r.limit, BDC_STAC_MAX_LIMIT)))


----------------------------------------------------------------------------
(* Band table contents and get_collection_eo                               *)

BandRow(name, common_name, gsd) == [name |-> name, common_name |-> common_name, gsd |-> gsd]

\* The bands of a collection as first ingested, and as ingested again.
BandVersions ==
    << <<BandRow("B1", "red", 10), BandRow("B2", "nir", 30), BandRow("B3", "blue", 20)>>,
       <<BandRow("B1", "red", 20)>> >>

DefaultBands == [c \in CollectionIds |-> IF c = 12 THEN <<>> ELSE BandVersions[1]]


LruMaxSize == 2

\* get_collection_eo's body, lines 159-197: the band descriptors in table
\* order and the largest gsd, 0 with no band.
RECURSIVE MaxGsd(_, _)
MaxGsd(rows, eo_gsd) ==
    IF rows = <<>> THEN eo_gsd
    ELSE MaxGsd(Tail(rows), IF Head(rows).gsd > eo_gsd THEN Head(rows).gsd ELSE eo_gsd)

CollectionEo(rows) ==
    [gsd |-> MaxGsd(rows, 0),
     bands |-> [j \in DOMAIN rows |->
                  [name |-> rows[j].name, common_name |-> rows[j].common_name]]]

CacheKeys(cache) == {cache[j].key : j \in DOMAIN cache}

CacheIndex(cache, c) == CHOOSE j \in DOMAIN cache : cache[j].key = c

Without(seq, k) == [j \in 1..(Len(seq) - 1) |-> IF j < k THEN seq[j] ELSE seq[j + 1]]

\* The memo and the call log as they stand between two calls.
Memo(cache, log) == [cache |-> cache, log |-> log]

\* EoCall with a hit leaving the entry's age as it is (first in, first out)
EoCallFifo(memo, c) ==
    LET cache == memo.cache
        hit == c \in CacheKeys(cache)
        value == IF hit THEN cache[CacheIndex(cache, c)].value ELSE CollectionEo(bands[c])
        kept == IF hit THEN cache
                ELSE IF Len(cache) >= LruMaxSize THEN Tail(cache)
                ELSE cache
        log == memo.log
        prev == IF c \in DOMAIN log THEN Some(log[c].value) ELSE None
        gap == IF c \in DOMAIN log THEN Cardinality(log[c].since) ELSE 0
    IN  [value |-> value,
         hit |-> hit,
         prev |-> prev,
         gap |-> gap,
         memo |-> Memo(IF hit THEN kept ELSE Append(kept, [key |-> c, value |-> value]),
                       [d \in DOMAIN log \cup {c} |->
                          IF d = c THEN [value |-> value, since |-> {}]
                          ELSE [log[d] EXCEPT !.since = @ \cup {c}]])]

\* One call get_collection_eo(c) through @lru_cache(): a hit returns the
\* stored value and makes the entry the most recent; a miss runs the body on
\* the Band table as it is now, stores the value and, past maxsize entries,
\* drops the least recently used.  The log keeps, per id, the value last
\* returned and the other ids called since.
EoCall(memo, c) ==
    LET cache == memo.cache
        hit == c \in CacheKeys(cache)
        value == IF hit THEN cache[CacheIndex(cache, c)].value ELSE CollectionEo(bands[c])
        kept == IF hit THEN Without(cache, CacheIndex(cache, c))
                ELSE IF Len(cache) >= LruMaxSize THEN Tail(cache)
                ELSE cache
        log == memo.log
        prev == IF c \in DOMAIN log THEN Some(log[c].value) ELSE None
        gap == IF c \in DOMAIN log THEN Cardinality(log[c].since) ELSE 0
    IN  [value |-> value,
         hit |-> hit,
         prev |-> prev,
         gap |-> gap,
         memo |-> Memo(Append(kept, [key |-> c, value |-> value]),
                       [d \in DOMAIN log \cup {c} |->
                          IF d = c THEN [value |-> value, since |-> {}]
                          ELSE [log[d] EXCEPT !.since = @ \cup {c}]])]

----------------------------------------------------------------------------
(* The other resolvers                                                     *)

\* s.find(ch): the first position of ch, counted from 0
Find(s, ch) == (CHOOSE j \in DOMAIN s : s[j] = ch /\ \A k \in 1..(j - 1) : s[k] # ch) - 1

\* s.replace(" ", ",")
ReplaceSpaces(s) == [j \in DOMAIN s |-> IF s[j] = " " THEN "," ELSE s[j]]

\* lines 302-303, 484-485: the four floats of a box text
ParseBoxText(text) ==
    LET inner == SubSeq(text, Find(text, "(") + 2, Find(text, ")"))
        pieces == Split(ReplaceSpaces(inner), ",")
    IN  [j \in DOMAIN pieces |-> ParseFloat(pieces[j]).val]

MinOf(S) == CHOOSE x \in S : \A y \in S : x <= y

MaxOf(S) == CHOOSE x \in S : \A y \in S : x >= y

ItemsOf(c) == {i \in ItemIdx : Items[i].collection_id = c}

\* get_collection_extent: the empty list when the collection has no item
CollectionExtent(c) ==
    IF ItemsOf(c) = {} \/ c \notin CollectionIds THEN <<>>
    ELSE ParseBoxText(BoxText(Box(MinOf({Items[i].geom.x1 : i \in ItemsOf(c)}),
                                  MinOf({Items[i].geom.y1 : i \in ItemsOf(c)}),
                                  MaxOf({Items[i].geom.x2 : i \in ItemsOf(c)}),
                                  MaxOf({Items[i].geom.y2 : i \in ItemsOf(c)}))))

RECURSIVE Ascending(_)
Ascending(S) ==
    IF S = {} THEN <<>>
    ELSE Bind(MinOf(S),
              LAMBDA least :
                <<least>> \o Bind(S \ {least}, LAMBDA rest : Ascending(rest)))

\* get_collection_tiles: the names of the tiles the collection's items use
CollectionTiles(c) ==
    LET used == Ascending({Items[i].tile_id[1] : i \in {k \in ItemsOf(c) : Items[k].tile_id # None}})
    IN  [j \in DOMAIN used |-> Tiles[used[j]].name]

\* get_collection_timeline: the distinct start dates, ascending, as text
CollectionTimeline(c) ==
    LET days == Ascending({Items[i].start_date : i \in ItemsOf(c)})
    IN  [j \in DOMAIN days |-> Str(days[j])]

\* get_collection_quicklook: None without a quicklook definition
CollectionQuicklook(c) == IF c \in DOMAIN Quicklooks THEN Some(Quicklooks[c]) ELSE None

\* get_collection_crs: .first() is None when the collection (or its grid
\* reference) does not exist, and None.crs raises AttributeError.
CollectionCrs(c) ==
    IF c \in CollectionIds /\ collections[c].grid_ref_sys_id # None
    THEN [outcome |-> "ok", crs |-> GridRefSyss[collections[c].grid_ref_sys_id[1]].crs]
    ELSE [outcome |-> "AttributeError", crs |-> <<>>]

----------------------------------------------------------------------------
(* get_collections and get_catalog                                         *)

\* A dict or None as a condition: None and {} are false.
Truthy(meta) == meta # None /\ DOMAIN meta[1] # {}

\* lines 381-385
License(meta) ==
    IF Truthy(meta) /\ "rightsList" \in DOMAIN meta[1] /\ Len(meta[1].rightsList) > 0
    THEN (IF "rights" \in DOMAIN meta[1].rightsList[1]
          THEN meta[1].rightsList[1].rights ELSE "")
    ELSE ""

\* dict.pop(key)
Pop(d, key) == [k \in DOMAIN d \ {key} |-> d[k]]

\* lines 411-416 and 510-515: what the lifting adds to properties
LiftedProperties(meta) ==
    IF Truthy(meta) /\ "platform" \in DOMAIN meta[1]
    THEN ("instruments" :> meta[1].platform.instruments)
         @@ ("platform" :> meta[1].platform.code)
    ELSE <<>>

\* lines 411-416 and 510-515: the row's meta dict after the lifting, which
\* pops "platform" from the dict itself
LiftedMeta(meta) ==
    IF Truthy(meta) /\ "platform" \in DOMAIN meta[1]
    THEN Some(Pop(meta[1], "platform"))
    ELSE meta

\* lines 337-351: the selected columns of one Collection row, with the
\* outer-joined grid name.  meta is the row's own object.
CollectionResultRow(c) ==
    [id |-> c,
     name |-> CollectionName(collections[c]),
     collection_type |-> collections[c].collection_type,
     meta |-> collections[c].meta,
     start |-> collections[c].start,
     end |-> collections[c].end,
     grid_ref_sys |-> IF collections[c].grid_ref_sys_id = None THEN None
                      ELSE Some(GridRefSyss[collections[c].grid_ref_sys_id[1]].name)]

\* lines 391-396
TemporalExtent(r) ==
    IF r.start # None
    THEN <<Some(Str(r.start[1])), IF r.end # None THEN Some(Str(r.end[1])) ELSE None>>
    ELSE <<None, None>>

\* lines 424-436: the cube fields; the CRS lookup comes first, then bbox[0]
CubeFields(r, bbox, eo) ==
    LET proj == CollectionCrs(r.id)
    IN  IF proj.outcome # "ok" THEN [outcome |-> proj.outcome, fields |-> <<>>]
        ELSE IF Len(bbox) < 4 THEN [outcome |-> "IndexError", fields |-> <<>>]
        ELSE [outcome |-> "ok",
              fields |->
                ("cube:dimensions" :>
                    [x |-> [extent |-> <<bbox[1], bbox[3]>>, reference_system |-> proj.crs],
                     y |-> [extent |-> <<bbox[2], bbox[4]>>, reference_system |-> proj.crs],
                     temporal |-> [extent |-> TemporalExtent(r),
                                   values |-> CollectionTimeline(r.id)],
                     bands |-> [j \in DOMAIN eo.bands |-> eo.bands[j].name]])
                @@ ("bdc:crs" :> proj.crs)]

\* lines 371-438: one pass of the loop on row r, eo being what the call of
\* get_collection_eo in it returns.  The document's bdc:metadata is the
\* row's meta dict itself, held here by reference.
AssembleCollection(r, eo) ==
    LET bbox == CollectionExtent(r.id)
        quicklooks == CollectionQuicklook(r.id)
        properties == ("eo:gsd" :> eo.value.gsd) @@ ("eo:bands" :> eo.value.bands)
                          @@ LiftedProperties(r.meta)
        after == [r EXCEPT !.meta = LiftedMeta(r.meta)]
        cube == IF r.collection_type = "cube" THEN CubeFields(r, bbox, eo.value)
                ELSE [outcome |-> "ok", fields |-> <<>>]
        doc == ("id" :> r.name)
               @@ ("license" :> License(r.meta))
               @@ ("properties" :> properties)
               @@ ("extent" :> [spatial |-> <<bbox>>, temporal |-> <<TemporalExtent(r)>>])
               @@ (IF quicklooks # None THEN "bdc:bands_quicklook" :> quicklooks[1] ELSE <<>>)
               @@ (IF Truthy(r.meta) THEN "bdc:metadata" :> [ref |-> r.id] ELSE <<>>)
               @@ ("bdc:grs" :> r.grid_ref_sys)
               @@ ("bdc:tiles" :> CollectionTiles(r.id))
               @@ cube.fields
    IN  [outcome |-> cube.outcome, doc |-> doc, row |-> after, memo |-> eo.memo]

\* lines 368-440: the loop; an exception ends it and the call
RECURSIVE AssembleAll(_, _, _, _)
AssembleAll(rows, j, done, memo) ==
    IF j > Len(rows)
    THEN [outcome |-> "ok", collections |-> done, rows |-> rows, memo |-> memo]
    ELSE Bind(AssembleCollection(rows[j], Bind(EoCall(memo, rows[j].id), LAMBDA eo : eo)),
              LAMBDA one :
                IF one.outcome # "ok"
                THEN [outcome |-> one.outcome, collections |-> <<>>,
                      rows |-> [rows EXCEPT ![j] = one.row], memo |-> one.memo]
                ELSE AssembleAll([rows EXCEPT ![j] = one.row], j + 1,
                                 Append(done, one.doc), one.memo))

\* lines 353-366: the visible collections, only the named one when
\* collection_id is given and not empty
SelectedCollections(collection_id, role_ids) ==
    {c \in CollectionIds :
        /\ Visible(c, role_ids)
        /\ (collection_id # None /\ collection_id[1] # <<>>)
              => CollectionName(collections[c]) = collection_id[1]}

\* get_collections(collection_id, roles)
Collections(collection_id, roles, memo) ==
    LET rl == RoleIds(roles)
        ids == Ascending(SelectedCollections(collection_id, rl.ids))
    IN  IF ~rl.ok
        THEN [outcome |-> "ValueError", collections |-> <<>>, rows |-> <<>>, memo |-> memo]
        ELSE AssembleAll([j \in DOMAIN ids |-> CollectionResultRow(ids[j])], 1, <<>>, memo)

\* get_catalog(roles)
Catalog(roles) ==
    LET rl == RoleIds(roles)
        ids == Ascending({c \in CollectionIds : Visible(c, rl.ids)})
    IN  IF ~rl.ok THEN [outcome |-> "ValueError", collections |-> <<>>]
        ELSE [outcome |-> "ok",
              collections |-> [j \in DOMAIN ids |->
                                 [id |-> ids[j],
                                  name |-> CollectionName(collections[ids[j]])]]]

----------------------------------------------------------------------------
(* make_geojson                                                            *)

\* lines 506-508: the position (from 0) of the last band named like the
\* asset key, if any
BandIndex(eo_bands, key) ==
    LET at == {j \in DOMAIN eo_bands : eo_bands[j].name = key}
    IN  IF at = {} THEN None ELSE Some(MaxOf(at) - 1)

\* lines 504-508 on one asset: the href is rewritten in the asset dict itself
RewrittenAsset(value, key, eo_bands, access_token) ==
    LET href == BDC_STAC_FILE_ROOT \o value.href \o access_token
        index == BandIndex(eo_bands, key)
    IN  (IF index # None THEN "eo:bands" :> <<index[1]>> ELSE <<>>)
        @@ [value EXCEPT !.href = href]

\* the very object x, under a second name
SameObject(x) == [value |-> x, shared |-> TRUE]

\* line 521, deepcopy(links): a new list of new dicts that equals x and
\* shares no object with it
Deepcopy(x) == [value |-> x, shared |-> FALSE]

\* lines 521-524: feature["links"] is what deepcopy(links) gives, and the
\* three += extend the hrefs of that object.  The result holds the feature's
\* links and the caller's template as the four lines leave it: writes to a
\* shared object are writes to the template, and the feature then holds the
\* template itself.
FeatureLinks(template, i, access_token) ==
    LET copy == Deepcopy(template)
        self == copy.value[1].href \o i.collection
                    \o <<"/", "i", "t", "e", "m", "s", "/">> \o i.item \o access_token
        parent == copy.value[2].href \o i.collection \o access_token
        root == copy.value[3].href \o i.collection \o access_token
        extended == [j \in DOMAIN copy.value |->
                       [copy.value[j] EXCEPT !.href = IF j = 1 THEN self
                                                      ELSE IF j = 2 THEN parent
                                                      ELSE IF j = 3 THEN root ELSE @]]
    IN  IF copy.shared
        THEN [links |-> [shared |-> TRUE, value |-> <<>>], template |-> extended]
        ELSE [links |-> [shared |-> FALSE, value |-> extended], template |-> template]

\* lines 472-526: one pass of the loop on row i, the k-th of the list, eo
\* being what the call of get_collection_eo in it returns.  The feature's
\* assets and its bdc:metadata are the row's own dicts, held here by
\* reference.
AssembleFeature(i, k, template, access_token, eo) ==
    LET bbox == IF i.bbox # <<>> THEN ParseBoxText(i.bbox) ELSE <<>>
        properties ==
            ("bdc:tile" :> i.tile) @@ ("datetime" :> Str(i.start))
            @@ (IF i.collection_type = "cube" /\ i.start # i.end
                THEN ("start_datetime" :> Str(i.start)) @@ ("end_datetime" :> Str(i.end))
                ELSE <<>>)
            @@ ("eo:gsd" :> eo.value.gsd) @@ ("eo:bands" :> eo.value.bands)
            @@ ("eo:cloud_cover" :> i.cloud_cover)
            @@ LiftedProperties(i.meta)
            @@ (IF Truthy(i.meta) THEN "bdc:metadata" :> [ref |-> k] ELSE <<>>)
        after == [i EXCEPT
                    !.assets = [key \in DOMAIN i.assets |->
                                  RewrittenAsset(i.assets[key], key, eo.value.bands,
                                                 access_token)],
                    !.meta = LiftedMeta(i.meta)]
        linked == IF Len(template) < 3
                  THEN [links |-> [shared |-> FALSE, value |-> <<>>], template |-> template]
                  ELSE FeatureLinks(template, i, access_token)
    IN  [outcome |-> IF Len(template) < 3 THEN "IndexError" ELSE "ok",
         feature |-> [id |-> i.item, collection |-> i.collection, bbox |-> bbox,
                      properties |-> properties, assets |-> [ref |-> k],
                      links |-> linked.links],
         row |-> after,
         template |-> linked.template,
         memo |-> eo.memo]

\* lines 469-528: the loop
RECURSIVE AssembleFeatures(_, _, _, _, _, _)
AssembleFeatures(rows, k, done, template, access_token, memo) ==
    IF k > Len(rows)
    THEN [outcome |-> "ok", features |-> done, rows |-> rows, template |-> template,
          memo |-> memo]
    ELSE Bind(AssembleFeature(rows[k], k, template, access_token,
                              Bind(EoCall(memo, rows[k].collection_id), LAMBDA eo : eo)),
              LAMBDA one :
                IF one.outcome # "ok"
                THEN [outcome |-> one.outcome, features |-> <<>>,
                      rows |-> [rows EXCEPT ![k] = one.row],
                      template |-> one.template, memo |-> one.memo]
                ELSE AssembleFeatures([rows EXCEPT ![k] = one.row], k + 1,
                                      Append(done, one.feature), one.template,
                                      access_token, one.memo))

\* make_geojson(items, links, access_token)
Geojson(rows, template, access_token, memo) ==
    AssembleFeatures(rows, 1, <<>>, template, access_token, memo)

----------------------------------------------------------------------------
(* Requests                                                                *)

MaxPage == 3

MaxLimitArg == 3

DefaultCollections ==
    (1 :> CollectionRow(<<"S">>, <<"1">>, TRUE, "plain", Some(1), Some(FullMeta)))
    @@ (2 :> CollectionRow(<<"L">>, <<"1">>, FALSE, "cube", Some(1), Some(BareMeta)))
    @@ (12 :> CollectionRow(<<"S">>, <<"2">>, FALSE, "plain", None, None))

IdsArgs == {None, Some(<<"a", ",", "c">>)}

ItemIdArgs == {None, Some(<<"a", "%">>)}

CollectionIdArgs == {None, Some(<<"S", "-", "1">>)}

CollectionsArgs == {None, Some(<<"L", "-", "1", ",", "S", "-", "1">>)}

QueryArgs ==
    {None,
     Some(<<<<"eo:cloud_cover", "lte", 50>>>>),
     Some(<<<<"bdc:tile", "startsWith", <<"T">>>>, <<"eo:cloud_cover", "between", 1>>>>)}

IntersectsArgs == {None, Some(Box(0, 0, 1, 1))}

\* a proper box, west = east, north = south (equal as floats, not as
\* text), a non-numeric value, three values
BBoxArgs ==
    {None,
     Some(<<"0", ",", "0", ",", "2", ",", "2">>),
     Some(<<"1", ",", "0", ",", "1", ".", "0", ",", "2">>),
     Some(<<"0", ",", "-", "0", ",", "5", ",", "0">>),
     Some(<<"0", ",", "x", ",", "1", ",", "1">>),
     Some(<<"0", ",", "0", ",", "1">>)}

\* a range, an instant, a range of three parts, a range with no start
DatetimeArgs ==
    {None,
     Some(<<"3", "/", "5">>),
     Some(<<"5">>),
     Some(<<"3", "/", "4", "/", "5">>),
     Some(<<"/", "5">>)}

SearchRoles == {<<>>, <<<<"2", ":", "r">>>>}

SearchRequests ==
    [collection_id : CollectionIdArgs, item_id : ItemIdArgs, bbox : BBoxArgs,
     datetime : DatetimeArgs, ids : IdsArgs, collections : CollectionsArgs,
     intersects : IntersectsArgs, page : 1..MaxPage, limit : 1..MaxLimitArg,
     query : QueryArgs, roles : SearchRoles]

\* the request with every filter but ids absent
OnlyIdsOf(r) ==
    [r EXCEPT !.item_id = None, !.collection_id = None, !.collections = None,
              !.bbox = None, !.intersects = None, !.datetime = None, !.query = None]

\* the request that gives no parameter: the defaults of lines 31-43
NoFilters ==
    [collection_id |-> None, item_id |-> None, bbox |-> None, datetime |-> None,
     ids |-> None, collections |-> None, intersects |-> None, page |-> 1,
     limit |-> 10, query |-> None, roles |-> <<>>]

CatalogRoles ==
    {<<>>,
     <<<<"2", ":", "r">>>>,
     <<<<"1", ":", "r">>>>,
     <<<<"1", "2", ":", "r">>, <<"1", ":", "w">>>>,
     <<<<"2", ":", "r">>, <<"r", ":", "2">>>>}

\* The three search modes (by ids, by identifier pattern, combined), the
\* combined one with and without a collection.
CatalogRequests ==
    {r \in [collection_id : {None, Some(<<"L", "-", "1">>)},
            item_id : ItemIdArgs, bbox : {None}, datetime : {None}, ids : IdsArgs,
            collections : {None}, intersects : {None}, page : {1}, limit : {2},
            query : {None}, roles : CatalogRoles] :
        (r.ids # None \/ r.item_id # None) => (r.item_id = None \/ r.ids = None)}

\* Collection 1 holds items; collection 2 holds items and is a cube or not,
\* with or without grid reference; collection 12 holds no item.
CollectionTables ==
    {(1 :> CollectionRow(<<"S">>, <<"1">>, p1, "plain", Some(1), Some(FullMeta)))
     @@ (2 :> CollectionRow(<<"L">>, <<"1">>, p2, k2, g2, Some(BareMeta)))
     @@ (12 :> CollectionRow(<<"S">>, <<"2">>, p12, k12, Some(1), m12)) :
        p1 \in BOOLEAN, p2 \in BOOLEAN, p12 \in BOOLEAN,
        k2 \in {"plain", "cube"}, g2 \in {None, Some(1)},
        k12 \in {"plain", "cube"}, m12 \in {None, Some(NoRightsMeta)}}

----------------------------------------------------------------------------
(* Operations                                                              *)

MaxGeojsonCalls == 2

AccessTokens == {<<>>, <<"?", "t">>}

LinkTemplates ==
    {<<[href |-> <<"s", "/">>, rel |-> "self"], [href |-> <<"p", "/">>, rel |-> "parent"],
       [href |-> <<"r", "/">>, rel |-> "root"]>>}

\* No call has been made yet.
Idle ==
    /\ result = None /\ docs = None /\ catalog = None /\ crs = None
    /\ features = <<>> /\ eo_ret = None

\* get_collection_items(**req)
GetCollectionItems ==
    /\ Idle
    /\ \E tb \in TieBreaks : result' = Some(CollectionItems(req, tb))
    /\ UNCHANGED <<collections, bands, req, docs, catalog, crs, links, features,
                   eo_cache, eo_ret, eo_log>>

\* make_geojson(result.items, links, access_token) on the rows of the page
\* and the links template the caller holds; both stay with the caller, as
\* the call left them.
MakeGeojson ==
    /\ result # None /\ result[1].outcome = "ok"
    /\ Len(features) < MaxGeojsonCalls
    /\ \E access_token \in AccessTokens :
          \E out \in {Geojson(result[1].items, links, access_token,
                               Memo(eo_cache, eo_log))} :
              /\ features' = Append(features,
                                    [outcome |-> out.outcome,
                                     access_token |-> access_token,
                                     links |-> links,
                                     features |-> out.features])
              /\ result' = Some([result[1] EXCEPT !.items = out.rows])
              /\ links' = out.template
              /\ eo_cache' = out.memo.cache
              /\ eo_log' = out.memo.log
    /\ UNCHANGED <<collections, bands, req, docs, catalog, crs, eo_ret>>

\* get_collections(req.collection_id, req.roles)
GetCollections ==
    /\ Idle
    /\ \E out \in {Collections(req.collection_id, req.roles, Memo(eo_cache, eo_log))} :
           /\ docs' = Some([outcome |-> out.outcome, collections |-> out.collections,
                            rows |-> out.rows])
           /\ eo_cache' = out.memo.cache
           /\ eo_log' = out.memo.log
    /\ UNCHANGED <<collections, bands, req, result, catalog, crs, links, features, eo_ret>>

\* get_catalog(req.roles)
GetCatalog ==
    /\ Idle
    /\ catalog' = Some(Catalog(req.roles))
    /\ UNCHANGED <<collections, bands, req, result, docs, crs, links, features,
                   eo_cache, eo_ret, eo_log>>

\* get_collection_crs(c), for a collection id or an id of no collection
GetCollectionCrs ==
    /\ Idle
    /\ \E c \in CollectionIds \cup {0} :
          crs' = Some([id |-> c, outcome |-> CollectionCrs(c).outcome,
                       crs |-> CollectionCrs(c).crs])
    /\ UNCHANGED <<collections, bands, req, result, docs, catalog, links, features,
                   eo_cache, eo_ret, eo_log>>

\* get_collection_eo(c)
GetCollectionEo ==
    /\ result = None /\ docs = None /\ catalog = None /\ crs = None
    /\ \E c \in CollectionIds :
          \E out \in {EoCall(Memo(eo_cache, eo_log), c)} :
              /\ eo_ret' = Some([id |-> c, value |-> out.value, hit |-> out.hit,
                                 prev |-> out.prev, gap |-> out.gap])
              /\ eo_cache' = out.memo.cache
              /\ eo_log' = out.memo.log
    /\ UNCHANGED <<collections, bands, req, result, docs, catalog, crs, links, features>>

\* The Band rows of a collection are ingested again (outside this module).
IngestBands ==
    /\ \E c \in CollectionIds \ {12}, v \in DOMAIN BandVersions :
          /\ bands[c] # BandVersions[v]
          /\ bands' = [bands EXCEPT ![c] = BandVersions[v]]
    /\ UNCHANGED <<collections, req, result, docs, catalog, crs, links, features,
                   eo_cache, eo_ret, eo_log>>

NothingCalled ==
    /\ result = None
    /\ docs = None
    /\ catalog = None
    /\ crs = None
    /\ features = <<>>
    /\ eo_cache = <<>>
    /\ eo_ret = None
    /\ eo_log = <<>>

\* Searches: one stored catalog, every combination of the filter parameters.
InitSearch ==
    /\ collections = DefaultCollections
    /\ bands = DefaultBands
    /\ req \in SearchRequests
    /\ links \in LinkTemplates
    /\ NothingCalled

NextSearch == GetCollectionItems

SpecSearch == InitSearch /\ [][NextSearch]_vars

\* Catalog: the stored collections vary (public or not, plain or cube, with
\* or without grid reference and metadata), and so do the caller's roles.
InitCatalog ==
    /\ collections \in CollectionTables
    /\ bands = DefaultBands
    /\ req \in CatalogRequests
    /\ links \in LinkTemplates
    /\ NothingCalled

NextCatalog ==
    \/ GetCollectionItems
    \/ MakeGeojson
    \/ GetCollections
    \/ GetCatalog
    \/ GetCollectionCrs

SpecCatalog == InitCatalog /\ [][NextCatalog]_vars

\* Memo: calls of get_collection_eo interleaved with re-ingestion of bands.
InitEo ==
    /\ collections = DefaultCollections
    /\ bands = DefaultBands
    /\ req = NoFilters
    /\ links \in LinkTemplates
    /\ NothingCalled

NextEo ==
    \/ GetCollectionEo
    \/ IngestBands

SpecEo == InitEo /\ [][NextEo]_vars

----------------------------------------------------------------------------
(* Properties of get_collection_items                                      *)

Called == result # None

Returned == result # None /\ result[1].outcome = "ok"

AnyOrder(r) == {CollectionItems(r, tb) : tb \in TieBreaks}

\* the request with every filter that ids overrides absent
OnlyIds(r) == OnlyIdsOf(r)

\* the request with every filter that item_id overrides absent
OnlyItemId(r) ==
    [r EXCEPT !.collection_id = None, !.collections = None, !.bbox = None,
              !.intersects = None, !.datetime = None, !.query = None]

\* C1: with ids present, the where list and the returned page are those of
\* the same request with item_id, collection_id, collections, bbox,
\* intersects, datetime and query all absent, whatever their values
\* (malformed ones included); with ids absent and item_id present, those of
\* the request with the other six absent.
C1_FilterPrecedence ==
    Called =>
        /\ req.ids # None =>
              /\ Where(req) = Where(OnlyIds(req))
              /\ result[1] \in AnyOrder(OnlyIds(req))
        /\ (req.ids = None /\ req.item_id # None) =>
              /\ Where(req) = Where(OnlyItemId(req))
              /\ result[1] \in AnyOrder(OnlyItemId(req))

\* ids given together with a degenerate bbox, a three-part datetime and an
\* unknown query operator: the call returns items
C1_Witness ==
    /\ Returned
    /\ req.ids # None /\ req.item_id # None
    /\ req.bbox # None /\ BBoxFilter(req.bbox[1]).err # ""
    /\ req.datetime # None /\ DateFilter(req.datetime[1]).err # ""
    /\ req.query # None /\ CreateQueryFilter(req.query[1]).err # ""
    /\ result[1].items # <<>>

\* the request reaches the bbox filter: combined mode, roles and query
\* compile, no intersects
CompilesBBox(r) ==
    /\ RoleIds(r.roles).ok
    /\ r.ids = None /\ r.item_id = None
    /\ PropertyFilter(r).err = ""
    /\ r.intersects = None
    /\ r.bbox # None

\* the bbox text holds four numbers, the first equal to the third or the
\* second equal to the fourth
DegenerateBBox(bbox) ==
    LET pieces == Split(bbox, ",")
    IN  /\ Len(pieces) = 4
        /\ \A j \in 1..4 : ParseFloat(pieces[j]).ok
        /\ \/ ParseFloat(pieces[1]).val = ParseFloat(pieces[3]).val
           \/ ParseFloat(pieces[2]).val = ParseFloat(pieces[4]).val

\* C3: a call that compiles the bbox filter from four numbers with
\* west = east or north = south raises InvalidBoundingBoxError and runs no
\* query.
C3_DegenerateBBoxFails ==
    (Called /\ CompilesBBox(req) /\ DegenerateBBox(req.bbox[1])) =>
        /\ result[1].outcome = "InvalidBoundingBoxError"
        /\ ~result[1].executed
        /\ result[1].items = <<>>

\* the degenerate box "1,0,1.0,2", whose equal values differ as text
C3_Witness ==
    /\ Called /\ CompilesBBox(req) /\ DegenerateBBox(req.bbox[1])
    /\ Split(req.bbox[1], ",")[1] # Split(req.bbox[1], ",")[3]
    /\ Split(req.bbox[1], ",")[2] # Split(req.bbox[1], ",")[4]
    /\ result[1].outcome = "InvalidBoundingBoxError"

\* the request filters by a datetime range alone
OnlyDatetimeRange(r) ==
    /\ r = [OnlyIds(r) EXCEPT !.datetime = r.datetime]
    /\ r.ids = None
    /\ r.datetime # None
    /\ Len(Split(r.datetime[1], "/")) = 2
    /\ \A j \in 1..2 : ParseTimestamp(Split(r.datetime[1], "/")[j]).ok

\* [start_date, end_date] and [ts, te] share a day
Overlaps(it, ts, te) == it.start_date <= te /\ ts <= it.end_date

VisibleItems(roles) ==
    {i \in ItemIdx : Visible(Items[i].collection_id, RoleIds(roles).ids)}

\* C4: a datetime range start/end alone selects exactly the visible items
\* whose interval [start_date, end_date] overlaps [start, end].
C4_DatetimeRangeOverlap ==
    (Returned /\ OnlyDatetimeRange(req)) =>
        LET ts == ParseTimestamp(Split(req.datetime[1], "/")[1]).val
            te == ParseTimestamp(Split(req.datetime[1], "/")[2]).val
        IN  result[1].total =
                Cardinality({i \in VisibleItems(req.roles) : Overlaps(Items[i], ts, te)})

EffectiveLimit(r) == Min(r.limit, BDC_STAC_MAX_LIMIT)

\* C5: a returned page holds the rows at positions (p-1)*L+1 .. min(p*L, n)
\* of the n matches in start_date descending order, in that order, with
\* L = min(limit, maximum); has_next is p*L < n; a page past the end is
\* returned empty.
C5_Pagination ==
    (Called /\ Where(req).err = ""
            /\ \A j \in DOMAIN Where(req).preds : ~BadLiteral(Where(req).preds[j])) =>
        LET matches == Matches(Where(req).preds)
            n == Cardinality(matches)
            L == EffectiveLimit(req)
            p == req.page
            lo == (p - 1) * L + 1
            hi == Min(p * L, n)
            got == result[1].items
        IN  /\ result[1].outcome = "ok"
            /\ Len(got) = (IF hi >= lo THEN hi - lo + 1 ELSE 0)
            /\ \E tb \in TieBreaks :
                  LET all == OrderByStartDesc(matches, tb)
                  IN  \A j \in DOMAIN got :
                         got[j] = ItemResultRow(all[lo + j - 1][1], all[lo + j - 1][2])
            /\ \A j \in 1..(Len(got) - 1) : got[j].start >= got[j + 1].start
            /\ \A j \in DOMAIN got :
                  Cardinality({ci \in matches : Items[ci[2]].start_date > got[j].start})
                      <= lo + j - 2
            /\ result[1].has_next = (p * L < n)

\* page 3 at limit 2 of three items: returned, empty, no next page
C5_Witness ==
    /\ Returned
    /\ req.page = 3 /\ req.limit >= 2
    /\ Cardinality(Matches(Where(req).preds)) = 3
    /\ result[1].items = <<>>
    /\ ~result[1].has_next


----------------------------------------------------------------------------
(* Properties of the catalog                                               *)

RECURSIVE IntText(_)
IntText(n) == IF n < 10 THEN Str(n) ELSE IntText(n \div 10) \o Str(n % 10)

\* the text of role before its first ":" is the number c
GrantedBy(role, c) ==
    LET t == IntText(c)
    IN  /\ Len(role) >= Len(t)
        /\ SubSeq(role, 1, Len(t)) = t
        /\ (Len(role) = Len(t) \/ role[Len(t) + 1] = ":")

\* collection c is public, or one of the caller's roles names it
Allowed(c) ==
    \/ collections[c].is_public
    \/ \E j \in DOMAIN req.roles : GrantedBy(req.roles[j], c)

AllowedItems == {i \in ItemIdx : Allowed(Items[i].collection_id)}

\* the items the request asks for, visibility aside
Asked(i) ==
    IF req.ids # None THEN Items[i].name \in RangeOf(Split(req.ids[1], ","))
    ELSE IF req.item_id # None THEN Like(Items[i].name, req.item_id[1])
    ELSE req.collection_id # None =>
            CollectionName(collections[Items[i].collection_id]) = req.collection_id[1]

\* C2: whatever the search mode, every returned item is of an allowed
\* collection (public, or named by a role) and the allowed items asked for
\* are all counted; get_collections returns allowed collections only, and
\* all of them when no collection is named; get_catalog returns exactly the
\* allowed collections.
C2_Visibility ==
    /\ Returned =>
          /\ \A j \in DOMAIN result[1].items : Allowed(result[1].items[j].collection_id)
          /\ \A j \in DOMAIN result[1].items :
                \E i \in AllowedItems : Items[i].name = result[1].items[j].item /\ Asked(i)
          /\ result[1].total = Cardinality({i \in AllowedItems : Asked(i)})
    /\ (docs # None /\ docs[1].outcome = "ok") =>
          /\ \A j \in DOMAIN docs[1].rows : Allowed(docs[1].rows[j].id)
          /\ req.collection_id = None =>
                {docs[1].rows[j].id : j \in DOMAIN docs[1].rows}
                    = {c \in CollectionIds : Allowed(c)}
    /\ (catalog # None /\ catalog[1].outcome = "ok") =>
          {catalog[1].collections[j].id : j \in DOMAIN catalog[1].collections}
              = {c \in CollectionIds : Allowed(c)}

\* roles "12:r", "1:w" with collections 1, 2 and 12 all non-public: the
\* catalog holds 1 and 12 and not 2
C2_Witness ==
    /\ catalog # None /\ catalog[1].outcome = "ok"
    /\ \A c \in CollectionIds : ~collections[c].is_public
    /\ {catalog[1].collections[j].id : j \in DOMAIN catalog[1].collections} = {1, 12}

\* the asset dict that feature k of a make_geojson result holds
FeatureAssets(f) == result[1].items[f.assets.ref].assets

\* the href stored for asset key of the item named name
StoredHref(name, key) ==
    Items[CHOOSE i \in ItemIdx : Items[i].name = name].assets[key].href

\* C6: in every feature of every make_geojson result, each asset's href is
\* the file root, the stored href and the access token of that call, once
\* each.
C6_AssetHrefOnce ==
    \A n \in DOMAIN features :
        features[n].outcome = "ok" =>
            \A k \in DOMAIN features[n].features :
                LET f == features[n].features[k]
                IN  \A key \in DOMAIN FeatureAssets(f) :
                        FeatureAssets(f)[key].href =
                            BDC_STAC_FILE_ROOT \o StoredHref(f.id, key)
                                \o features[n].access_token

\* no selected cube collection lacks its grid reference
CubesHaveGrid ==
    \A c \in SelectedCollections(req.collection_id, RoleIds(req.roles).ids) :
        collections[c].collection_type = "cube" => collections[c].grid_ref_sys_id # None

HasRights(c) ==
    /\ Truthy(collections[c].meta)
    /\ "rightsList" \in DOMAIN collections[c].meta[1]
    /\ collections[c].meta[1].rightsList # <<>>

\* C7: with well-formed roles, get_collections returns one document per
\* selected collection, whatever data the collection lacks: license "" with
\* no rightsList, no quicklook field with no quicklook definition, an empty
\* tile list with no tiles, and a document also for a collection with no
\* items, plain or cube.
C7_CollectionsDegradeGracefully ==
    (docs # None /\ RoleIds(req.roles).ok /\ CubesHaveGrid) =>
        LET sel == Ascending(SelectedCollections(req.collection_id, RoleIds(req.roles).ids))
        IN  /\ docs[1].outcome = "ok"
            /\ Len(docs[1].collections) = Len(sel)
            /\ \A j \in DOMAIN sel :
                  LET d == docs[1].collections[j]
                  IN  /\ d["id"] = CollectionName(collections[sel[j]])
                      /\ ~HasRights(sel[j]) => d["license"] = ""
                      /\ sel[j] \notin DOMAIN Quicklooks => "bdc:bands_quicklook" \notin DOMAIN d
                      /\ ItemsOf(sel[j]) = {} => d["bdc:tiles"] = <<>>

\* C8: resolving the CRS of a collection with no grid reference never ends
\* in the AttributeError of dereferencing the missing row, neither in
\* get_collection_crs nor in get_collections.
C8_MissingCrsIsExplicit ==
    /\ (crs # None /\ crs[1].id \in CollectionIds
                  /\ collections[crs[1].id].grid_ref_sys_id = None) =>
          crs[1].outcome # "AttributeError"
    /\ docs # None => docs[1].outcome # "AttributeError"

\* C10: after get_collections or make_geojson, every row read still holds
\* the metadata stored for its collection ("platform" included), the output
\* carries platform and instruments, its bdc:metadata is not the row's own
\* dict, and a second make_geojson gives the features of the first.
C10_LiftingIsPure ==
    /\ (docs # None /\ docs[1].outcome = "ok") =>
          \A j \in DOMAIN docs[1].rows :
             LET r == docs[1].rows[j]
                 d == docs[1].collections[j]
             IN  /\ r.meta = collections[r.id].meta
                 /\ (Truthy(collections[r.id].meta)
                        /\ "platform" \in DOMAIN collections[r.id].meta[1]) =>
                       /\ "platform" \in DOMAIN d["properties"]
                       /\ "instruments" \in DOMAIN d["properties"]
                       /\ "ref" \notin DOMAIN d["bdc:metadata"]
    /\ (features # <<>> /\ features[1].outcome = "ok") =>
          /\ \A k \in DOMAIN result[1].items :
                result[1].items[k].meta = collections[result[1].items[k].collection_id].meta
          /\ \A n \in DOMAIN features :
                features[n].access_token = features[1].access_token =>
                    features[n].features = features[1].features

----------------------------------------------------------------------------
(* Properties of the get_collection_eo memo                                *)

\* C9 as claimed: a call returns what the previous call for the same id
\* returned, always.
C9_NeverInvalidated ==
    (eo_ret # None /\ eo_ret[1].prev # None) => eo_ret[1].value = eo_ret[1].prev[1]

\* C9 as amended: a call returns what the previous call for the same id
\* returned, whatever happened to the stored bands, when fewer than maxsize
\* other ids were called in between.
C9_StableWhileCached ==
    (eo_ret # None /\ eo_ret[1].prev # None /\ eo_ret[1].gap < LruMaxSize) =>
        /\ eo_ret[1].hit
        /\ eo_ret[1].value = eo_ret[1].prev[1]

\* a call answered from the memo after another id was called and after the
\* bands of its collection changed
C9_Witness ==
    /\ eo_ret # None /\ eo_ret[1].prev # None
    /\ eo_ret[1].gap >= 1 /\ eo_ret[1].gap < LruMaxSize
    /\ eo_ret[1].value = eo_ret[1].prev[1]
    /\ eo_ret[1].value # CollectionEo(bands[eo_ret[1].id])

----------------------------------------------------------------------------
(* Properties of the links of make_geojson                                 *)

\* the three hrefs make_geojson owes feature f of a call given the template
\* t and the token tok: those of t followed by f's own collection and item
OwnHrefs(t, f, tok) ==
    <<t[1].href \o f.collection \o <<"/", "i", "t", "e", "m", "s", "/">> \o f.id \o tok,
      t[2].href \o f.collection \o tok,
      t[3].href \o f.collection \o tok>>

\* C11: the caller's links template is, after any number of make_geojson
\* calls, the template it was before the first; every call is handed that
\* same template; no feature holds the template object itself or a link of
\* another feature; and the three link hrefs of every feature are the
\* template's original hrefs followed by collection/items/item+token,
\* collection+token and collection+token of the feature's own item,
\* wherever the feature stands in the list, the other fields of each link
\* being the template's.
C11_LinksCopiedPerFeature ==
    /\ links \in LinkTemplates
    /\ \A n \in DOMAIN features :
          /\ features[n].links = links
          /\ features[n].outcome = "ok" =>
                \A k \in DOMAIN features[n].features :
                    LET f == features[n].features[k]
                        own == OwnHrefs(links, f, features[n].access_token)
                    IN  /\ ~f.links.shared
                        /\ Len(f.links.value) = Len(links)
                        /\ \A j \in DOMAIN links :
                              f.links.value[j] = [links[j] EXCEPT !.href = own[j]]

\* two calls of make_geojson on a page of two items, one of them with a
\* token: four features, the second of each call with the links of its own
\* item
C11_Witness ==
    /\ Len(features) = 2
    /\ \A n \in 1..2 : features[n].outcome = "ok" /\ Len(features[n].features) = 2
    /\ features[1].access_token # features[2].access_token
    /\ features[2].features[1].id # features[2].features[2].id
    /\ features[2].features[2].links.value[1].href
          = OwnHrefs(links, features[2].features[2], features[2].access_token)[1]

=============================================================================
